---- MODULE Spec2Model ----
(***************************************************************************)
(* Model of the heating-fuel classifier of scripts/process_data.py.       *)
(*                                                                         *)
(* A call of process_heating_fuel_data(df, year) is one action.  The raw   *)
(* table df is observed through one of its rows: every column operation    *)
(* of the function (np.where, np.round, max(axis=1), apply(axis=1)) works  *)
(* row by row, so a row of the output depends on the same row of the       *)
(* input only.  A row is a function from column names to cells.            *)
(*                                                                         *)
(* Numeric cells are float64 cells: [isna |-> TRUE, v |-> 0] is NaN and    *)
(* [isna |-> FALSE, v |-> n] is the number n.  Comparisons follow IEEE:    *)
(* every comparison with NaN is false.  Percentages are rounded to one     *)
(* decimal place by the code; a percentage cell holds the number of        *)
(* TENTHS of a percent (800 stands for 80.0), so that it is an integer.    *)
(***************************************************************************)
EXTENDS Integers, Sequences, FiniteSets, TLC

VARIABLES
    df,        \* the caller's raw table (one row of it)
    year,      \* the year argument
    pc,        \* "ready", "returned" or "raised", "done" after a second call
    result,    \* what the call returned or raised
    result2,   \* what a second call on the same table returned or raised
    geo_in,    \* the arguments of prepare_geodataframe
    geo,       \* what prepare_geodataframe returned
    viz_in,    \* the arguments of create_heating_fuel_map / create_heating_fuel_grid
    viz        \* the renderer's effects: directory, figure, axes, files, outcome

vars == <<df, year, pc, result, result2, geo_in, geo, viz_in, viz>>

----------------------------------------------------------------------------
(* Bounds of the explored inputs *)

MaxCount == 2
MaxTotal == 3

----------------------------------------------------------------------------
(* Cells *)

NaN == [isna |-> TRUE, v |-> 0]

Num(n) == [isna |-> FALSE, v |-> n]

notna(c) == ~c.isna

\* == of two float cells (NaN equals nothing, itself included)
CellEq(a, b) == ~a.isna /\ ~b.isna /\ a.v = b.v

\* > of two float cells
CellGt(a, b) == ~a.isna /\ ~b.isna /\ a.v > b.v

----------------------------------------------------------------------------
(* process_heating_fuel_data: the year's schema and the column projection *)

column_mappings ==
    (2015 :> [geoid_col |-> "GEOID",  name_col |-> "NAME_E", fuel_prefix |-> "ADQYE"]) @@
    (2020 :> [geoid_col |-> "GEOID",  name_col |-> "NAME_E", fuel_prefix |-> "AMVDE"]) @@
    (2023 :> [geoid_col |-> "GEO_ID", name_col |-> "NAME_E", fuel_prefix |-> "ASUPE"])

\* a lookup that falls back to the latest schema instead of failing
ResolveYearDefaulting(y) ==
    IF y \in DOMAIN column_mappings
    THEN [ok |-> TRUE, mapping |-> column_mappings[y]]
    ELSE [ok |-> TRUE, mapping |-> column_mappings[2023]]

\* `if year not in column_mappings: raise KeyError`, then column_mappings[year]
ResolveYear(y) ==
    IF y \in DOMAIN column_mappings
    THEN [ok |-> TRUE, mapping |-> column_mappings[y]]
    ELSE [ok |-> FALSE]

fuel_columns ==
    <<"Natural_Gas", "Propane", "Electricity", "Fuel_Oil",
      "Coal", "Wood", "Solar", "Other", "No_Fuel">>

Fuels == {fuel_columns[i] : i \in DOMAIN fuel_columns}

\* the dict columns_to_keep, in insertion order: <<raw name, canonical name>>
columns_to_keep(mapping) ==
    << <<"GISJOIN", "GISJOIN">>, <<"YEAR", "YEAR">>, <<"STUSAB", "STUSAB">>,
       <<"STATE", "STATE">>, <<"STATEA", "STATEA">>, <<"COUNTY", "COUNTY">>,
       <<"COUNTYA", "COUNTYA">>, <<"TRACTA", "TRACTA">>,
       <<mapping.geoid_col, "GEOID">>,
       <<mapping.name_col, "County_Name">>,
       <<mapping.fuel_prefix \o "001", "Total_Housing_Units">>,
       <<mapping.fuel_prefix \o "002", "Natural_Gas">>,
       <<mapping.fuel_prefix \o "003", "Propane">>,
       <<mapping.fuel_prefix \o "004", "Electricity">>,
       <<mapping.fuel_prefix \o "005", "Fuel_Oil">>,
       <<mapping.fuel_prefix \o "006", "Coal">>,
       <<mapping.fuel_prefix \o "007", "Wood">>,
       <<mapping.fuel_prefix \o "008", "Solar">>,
       <<mapping.fuel_prefix \o "009", "Other">>,
       <<mapping.fuel_prefix \o "010", "No_Fuel">> >>

KeptRaw(keep) == {keep[i][1] : i \in DOMAIN keep}

KeptCanonical(keep) == {keep[i][2] : i \in DOMAIN keep}

\* the columns df[list(columns_to_keep.keys())] does not find
MissingColumns(row, keep) == KeptRaw(keep) \ DOMAIN row

\* df[list(columns_to_keep.keys())].rename(columns=columns_to_keep)
SelectRename(row, keep) ==
    [c \in KeptCanonical(keep) |->
        row[keep[CHOOSE i \in DOMAIN keep : keep[i][2] = c][1]]]

\* the frame line 99 binds the local name df to.  df[[...]] builds a new
\* frame and .rename(columns=...) another one: the caller's frame is not it.
\* Here: the projection done in place, on the caller's frame.
ProjectInPlace(row, keep) == [object |-> "caller", table |-> SelectRename(row, keep)]

\* df = df[list(columns_to_keep.keys())].rename(columns=columns_to_keep)
Project(row, keep) == [object |-> "new", table |-> SelectRename(row, keep)]

\* s[:n], the first characters instead of the last
FirstChars(s, n) == IF Len(s) <= n THEN s ELSE SubSeq(s, 1, n)

\* s[-n:] of a string s, held as a sequence of characters
LastChars(s, n) == IF Len(s) <= n THEN s ELSE SubSeq(s, Len(s) - n + 1, Len(s))

----------------------------------------------------------------------------
(* process_heating_fuel_data: the derived columns *)

\* the threshold off by one: a tract with a single housing unit is rejected
DataQualityCheckAboveOne(total) ==
    IF notna(total) /\ CellGt(total, Num(1)) THEN "Valid_Data" ELSE "Insufficient_Data"

\* np.where(total.notna() & (total > 0), 'Valid_Data', 'Insufficient_Data')
DataQualityCheck(total) ==
    IF notna(total) /\ CellGt(total, Num(0)) THEN "Valid_Data" ELSE "Insufficient_Data"

\* n / d rounded to the nearest integer, halves to the even one (np.round), d > 0
RoundHalfEven(n, d) ==
    LET q == n \div d
        r == n % d
    IN  IF 2 * r < d THEN q
        ELSE IF 2 * r > d THEN q + 1
        ELSE IF q % 2 = 0 THEN q ELSE q + 1

\* np.round((count / total) * 100, 1), in tenths of a percent; NaN propagates.
\* Only selected by np.where for rows with total > 0.
RoundedPct(count, total) ==
    IF count.isna \/ total.isna THEN NaN
    ELSE Num(RoundHalfEven(1000 * count.v, total.v))

\* the sum of the non-null fuel counts of the row, from position i down
RECURSIVE FuelSum(_, _)
FuelSum(row, i) ==
    IF i = 0 THEN 0
    ELSE FuelSum(row, i - 1)
         + (IF row[fuel_columns[i]].isna THEN 0 ELSE row[fuel_columns[i]].v)

\* the share of the fuels' sum instead of the share of the housing units
PctOfFuelSum(row, fuel) ==
    IF row["Data_Quality_Check"] = "Insufficient_Data"
       \/ FuelSum(row, Len(fuel_columns)) = 0
    THEN NaN
    ELSE RoundedPct(row[fuel], Num(FuelSum(row, Len(fuel_columns))))

\* a scale slip: the ratio times 1000 instead of times 100
PctTimesThousand(row, fuel) ==
    IF row["Data_Quality_Check"] = "Insufficient_Data" \/ row[fuel].isna
    THEN NaN
    ELSE Num(RoundHalfEven(10000 * row[fuel].v, row["Total_Housing_Units"].v))

\* np.where(quality == 'Insufficient_Data', np.nan, np.round(count / total * 100, 1))
Pct(row, fuel) ==
    IF row["Data_Quality_Check"] = "Insufficient_Data"
    THEN NaN
    ELSE RoundedPct(row[fuel], row["Total_Housing_Units"])

PctName(fuel) == "Pct_" \o fuel

\* the loop `for fuel in fuel_columns: df[f'Pct_{fuel}'] = ...`
PctColumns(row) ==
    [c \in {PctName(f) : f \in Fuels} |->
        Pct(row, CHOOSE f \in Fuels : PctName(f) = c)]

\* fuel_counts.max(axis=1): the largest non-NaN count, NaN when all are NaN
RECURSIVE MaxFrom(_, _, _)
MaxFrom(row, i, acc) ==
    IF i > Len(fuel_columns) THEN acc
    ELSE LET c == row[fuel_columns[i]]
         IN  MaxFrom(row, i + 1,
                     IF c.isna THEN acc
                     ELSE IF acc.isna \/ c.v > acc.v THEN c ELSE acc)

max_fuel_value(row) == MaxFrom(row, 1, NaN)

\* (fuel_counts == max[:, np.newaxis]).sum(axis=1)
tie_count(row, max) == Cardinality({f \in Fuels : CellEq(row[f], max)})

\* without the guard on a total of 0
HasDomTieIgnoringTotal(total, ties) == ties > 1

\* a two-way tie missed
HasDomTieThreeOrMore(total, ties) ==
    IF CellEq(total, Num(0)) THEN FALSE ELSE ties > 2

\* np.where(total == 0, False, tie_count > 1)
HasDomTie(total, ties) ==
    IF CellEq(total, Num(0)) THEN FALSE ELSE ties > 1

\* the loop of _identify_dominant_fuel, from position i on
RECURSIVE FirstEqual(_, _, _, _)
FirstEqual(row, cols, max, i) ==
    IF i > Len(cols) THEN "Error"
    ELSE IF CellEq(row[cols[i]], max) THEN cols[i]
    ELSE FirstEqual(row, cols, max, i + 1)

\* the tie tested before the quality check
identify_dominant_fuel_tie_first(row, cols) ==
    IF row["Has_Dom_Tie"] THEN "Tie"
    ELSE IF row["Data_Quality_Check"] = "Insufficient_Data" THEN "No_Data"
    ELSE FirstEqual(row, cols, row["_max_fuel_value"], 1)

\* the first fuel returned without comparing it with the maximum
identify_dominant_fuel_first_column(row, cols) ==
    IF row["Data_Quality_Check"] = "Insufficient_Data" THEN "No_Data"
    ELSE IF row["Has_Dom_Tie"] THEN "Tie"
    ELSE cols[1]

\* _identify_dominant_fuel(row, fuel_columns)
identify_dominant_fuel(row, cols) ==
    IF row["Data_Quality_Check"] = "Insufficient_Data" THEN "No_Data"
    ELSE IF row["Has_Dom_Tie"] THEN "Tie"
    ELSE FirstEqual(row, cols, row["_max_fuel_value"], 1)

\* np.where((quality == 'Insufficient_Data') | Has_Dom_Tie, np.nan, _max_fuel_value)
DomFuelCount(row) ==
    IF row["Data_Quality_Check"] = "Insufficient_Data" \/ row["Has_Dom_Tie"]
    THEN NaN
    ELSE row["_max_fuel_value"]

\* the percentage of the wrong temporary column
DomFuelPctOfTieCount(row) ==
    IF row["Data_Quality_Check"] = "Insufficient_Data" \/ row["Has_Dom_Tie"]
    THEN NaN
    ELSE RoundedPct(Num(row["_tie_count"]), row["Total_Housing_Units"])

\* np.where(..., np.nan, np.round((_max_fuel_value / total) * 100, 1))
DomFuelPct(row) ==
    IF row["Data_Quality_Check"] = "Insufficient_Data" \/ row["Has_Dom_Tie"]
    THEN NaN
    ELSE RoundedPct(row["_max_fuel_value"], row["Total_Housing_Units"])

\* the drop forgotten
DropNothing(row, cols) == row

\* df.drop(columns=cols)
Drop(row, cols) == [c \in DOMAIN row \ cols |-> row[c]]

\* lines 101-151: the column assignments, temporary columns included
Derive(row0) ==
    LET r1 == row0 @@ ("FIPS_Code" :> LastChars(row0["GEOID"], 11))
        r2 == r1 @@ ("Data_Quality_Check" :> DataQualityCheck(r1["Total_Housing_Units"]))
        r3 == r2 @@ PctColumns(r2)
        r4 == r3 @@ ("_max_fuel_value" :> max_fuel_value(r3))
        r5 == r4 @@ ("_tie_count" :> tie_count(r4, r4["_max_fuel_value"]))
        r6 == r5 @@ ("Has_Dom_Tie" :> HasDomTie(r5["Total_Housing_Units"], r5["_tie_count"]))
        r7 == r6 @@ ("Dom_Fuel_Type" :> identify_dominant_fuel(r6, fuel_columns))
        r8 == r7 @@ ("Dom_Fuel_Count" :> DomFuelCount(r7))
        r9 == r8 @@ ("Dom_Fuel_Pct" :> DomFuelPct(r8))
    IN  r9

\* lines 101-156: the derived columns, then the temporary ones dropped
Classify(row0) == Drop(Derive(row0), {"_max_fuel_value", "_tie_count"})

\* a selection that fills absent columns with NaN (df.reindex(columns=...))
SelectRenameReindex(row, keep) ==
    [c \in KeptCanonical(keep) |->
        LET raw == keep[CHOOSE i \in DOMAIN keep : keep[i][2] = c][1]
        IN  IF raw \in DOMAIN row THEN row[raw] ELSE NaN]

\* the call with that selection: only an absent identifier column still fails,
\* in .str of line 102
process_heating_fuel_data_reindex(row, y) ==
    LET res == ResolveYear(y)
    IN  IF ~res.ok
        THEN [kind |-> "raise", exc |-> "KeyError",
              msg |-> <<"Year must be 2015, 2020, or 2023. Got: ", y>>]
        ELSE LET keep == columns_to_keep(res.mapping)
             IN  IF res.mapping.geoid_col \notin DOMAIN row
                 THEN [kind |-> "raise", exc |-> "AttributeError",
                       msg |-> <<"Can only use .str accessor with string values">>]
                 ELSE [kind |-> "return",
                       table |-> Classify(SelectRenameReindex(row, keep))]

\* process_heating_fuel_data(df, year): what the call returns or raises
process_heating_fuel_data(row, y) ==
    LET res == ResolveYear(y)
    IN  IF ~res.ok
        THEN [kind |-> "raise", exc |-> "KeyError",
              msg |-> <<"Year must be 2015, 2020, or 2023. Got: ", y>>]
        ELSE LET keep == columns_to_keep(res.mapping)
             IN  IF MissingColumns(row, keep) # {}
                 THEN [kind |-> "raise", exc |-> "KeyError",
                       msg |-> <<"not in index", MissingColumns(row, keep)>>]
                 ELSE [kind |-> "return",
                       table |-> Classify(Project(row, keep).table)]

\* the caller's frame when the call is over: lines 102-151 assign columns to
\* the frame the local name df is bound to, and line 154 rebinds the name
CallerFrameAfter(row, y) ==
    LET res == ResolveYear(y)
    IN  IF ~res.ok THEN row
        ELSE LET keep == columns_to_keep(res.mapping)
             IN  IF MissingColumns(row, keep) # {} THEN row
                 ELSE IF Project(row, keep).object = "caller"
                      THEN Derive(Project(row, keep).table)
                      ELSE row

----------------------------------------------------------------------------
(* The inputs explored *)

Counts == {NaN} \cup {Num(n) : n \in 0..MaxCount}

Totals == {NaN} \cup {Num(n) : n \in -1..MaxTotal}

Years == {2010, 2015, 2020, 2023}

\* rows of fuel counts in which at most two fuels differ from the others
FuelRows ==
    {[f \in Fuels |-> IF f = f1 THEN a ELSE IF f = f2 THEN b ELSE base] :
        f1 \in Fuels, f2 \in Fuels, a \in Counts, b \in Counts, base \in Counts}

SampleGeoid ==
    <<"1","4","0","0","0","U","S","3","6","0","6","1","0","0","0","1","0","0">>

\* one row of the NHGIS extract of survey year `vintage`
RawRow(vintage, total, counts) ==
    LET m == column_mappings[vintage]
        keep == columns_to_keep(m)
    IN  [c \in KeptRaw(keep) \cup {"REGIONA"} |->
            IF c = m.geoid_col THEN SampleGeoid
            ELSE IF c = m.fuel_prefix \o "001" THEN total
            ELSE IF \E i \in 12..20 : keep[i][1] = c
                 THEN counts[keep[CHOOSE i \in 12..20 : keep[i][1] = c][2]]
            ELSE c]

NoResult == [kind |-> "none"]

\* nothing called yet
Idle == [pc |-> "idle"]

Init ==
    /\ \E vintage \in DOMAIN column_mappings, total \in Totals, counts \in FuelRows :
          df = RawRow(vintage, total, counts)
    /\ year \in Years
    /\ pc = "ready"
    /\ result = NoResult
    /\ result2 = NoResult
    /\ geo_in = Idle /\ geo = Idle
    /\ viz_in = Idle /\ viz = Idle

\* the caller runs process_heating_fuel_data(df, year)
Call ==
    /\ pc = "ready"
    /\ result' = process_heating_fuel_data(df, year)
    /\ pc' = IF result'.kind = "return" THEN "returned" ELSE "raised"
    /\ df' = CallerFrameAfter(df, year)
    /\ UNCHANGED <<year, result2, geo_in, geo, viz_in, viz>>

Next == Call

Spec == Init /\ [][Next]_vars

----------------------------------------------------------------------------
(* The column projection: tables with the columns of all three vintages,
   one column possibly absent, called once and then once more *)

\* the identifier strings: the example of the documentation and its substrings
GeoidValues ==
    {SubSeq(SampleGeoid, i, j) : i \in 1..Len(SampleGeoid), j \in 0..Len(SampleGeoid)}

FuelPrefixes == <<"ADQYE", "AMVDE", "ASUPE">>

FuelSuffixes == <<"001", "002", "003", "004", "005", "006", "007", "008", "009", "010">>

IdentifierColumns ==
    {"GISJOIN", "YEAR", "STUSAB", "STATE", "STATEA", "COUNTY", "COUNTYA", "TRACTA",
     "NAME_E", "REGIONA"}

\* the count columns of the three extracts, each cell different from every other
WideCounts ==
    [c \in {FuelPrefixes[p] \o FuelSuffixes[j] :
               p \in DOMAIN FuelPrefixes, j \in DOMAIN FuelSuffixes} |->
        LET pj == CHOOSE pj \in (DOMAIN FuelPrefixes) \X (DOMAIN FuelSuffixes) :
                      FuelPrefixes[pj[1]] \o FuelSuffixes[pj[2]] = c
        IN  IF pj[2] = 1 THEN Num(100 + pj[1]) ELSE Num(10 * pj[1] + pj[2])]

\* a row holding the columns of all three extracts and both spellings of the
\* identifier column
WideRow(geoid) ==
    ("GEOID" :> geoid) @@ ("GEO_ID" :> <<"9">> \o geoid)
    @@ [c \in IdentifierColumns |-> c] @@ WideCounts

InitColumns ==
    /\ \E geoid \in GeoidValues :
          LET wide == WideRow(geoid)
          IN  \E absent \in {{}} \cup {{c} : c \in DOMAIN wide} :
                  df = [c \in DOMAIN wide \ absent |-> wide[c]]
    /\ year \in Years
    /\ pc = "ready"
    /\ result = NoResult
    /\ result2 = NoResult
    /\ geo_in = Idle /\ geo = Idle
    /\ viz_in = Idle /\ viz = Idle

\* the caller runs process_heating_fuel_data(df, year) once more, on the
\* table as the first call left it
CallAgain ==
    /\ pc \in {"returned", "raised"}
    /\ result2' = process_heating_fuel_data(df, year)
    /\ pc' = "done"
    /\ df' = CallerFrameAfter(df, year)
    /\ UNCHANGED <<year, result, geo_in, geo, viz_in, viz>>

NextColumns == Call \/ CallAgain

SpecColumns == InitColumns /\ [][NextColumns]_vars

----------------------------------------------------------------------------
(* prepare_geodataframe and simplify_fuel_categories.

   A string cell of a merged frame is [isna |-> FALSE, s |-> the string];
   the cell a left join leaves empty is NaS.  A row carries its index label
   idx; the geometry of a tract plays no part in the filters and is left
   out. *)

MaxTracts == 2

NaS == [isna |-> TRUE, s |-> ""]

Str(s) == [isna |-> FALSE, s |-> s]

FUEL_COLORS ==
    [Natural_Gas |-> "#3182bd", Electricity |-> "#31a354", Fuel_Oil |-> "#de2d26",
     Propane |-> "#fd8d3c", Wood |-> "#8c6d31", Other |-> "#969696",
     No_Fuel_Missing |-> "#f0f0f0"]

\* an unknown label handed through instead of falling into the last branch
simplify_fuel_categories_passthrough(fuel_type) ==
    IF ~fuel_type.isna
       /\ fuel_type.s \in {"Electricity", "Natural_Gas", "Propane", "Fuel_Oil", "Wood"}
    THEN fuel_type.s
    ELSE IF ~fuel_type.isna /\ fuel_type.s \in {"Tie", "Coal", "Solar", "Other"}
    THEN "Other"
    ELSE IF ~fuel_type.isna /\ fuel_type.s \in {"No_Fuel", "No_Data"}
    THEN "No_Fuel_Missing"
    ELSE fuel_type.s

\* simplify_fuel_categories(fuel_type); NaN is in neither list
simplify_fuel_categories(fuel_type) ==
    IF ~fuel_type.isna
       /\ fuel_type.s \in {"Electricity", "Natural_Gas", "Propane", "Fuel_Oil", "Wood"}
    THEN fuel_type.s
    ELSE IF ~fuel_type.isna /\ fuel_type.s \in {"Tie", "Coal", "Solar", "Other"}
    THEN "Other"
    ELSE "No_Fuel_Missing"

\* gdf['Dom_Fuel_Simple'].map(FUEL_COLORS): NaN for a key the dict lacks
ColorOf(simple) ==
    IF simple \in DOMAIN FUEL_COLORS THEN Str(FUEL_COLORS[simple]) ELSE NaS

\* if exclude_states is None: exclude_states = ['HI', 'PR']
ExcludeList(exclude_states) ==
    IF exclude_states.is_none THEN <<"HI", "PR">> ELSE exclude_states.list

\* gdf_tracts.merge(df_processed, on='GISJOIN', how='left'), GISJOIN unique in
\* df_processed: one row per tract, in the order of the tracts
MergeLeft(gdf_tracts, df_processed) ==
    [i \in 1..Len(gdf_tracts) |->
        LET key == gdf_tracts[i]
            hit == key \in DOMAIN df_processed
        IN  [idx |-> i - 1,
             GISJOIN |-> key,
             STUSAB |-> IF hit THEN Str(df_processed[key].STUSAB) ELSE NaS,
             Dom_Fuel_Type |-> IF hit THEN Str(df_processed[key].Dom_Fuel_Type) ELSE NaS]]

\* lines 257 and 260: the two columns added to the merged frame
WithCategory(row) ==
    LET simple == simplify_fuel_categories(row.Dom_Fuel_Type)
    IN  [idx |-> row.idx, GISJOIN |-> row.GISJOIN, STUSAB |-> row.STUSAB,
         Dom_Fuel_Type |-> row.Dom_Fuel_Type,
         Dom_Fuel_Simple |-> simple, color |-> ColorOf(simple)]

\* ~gdf['STUSAB'].isin(exclude_states)
Kept(row, exclude) ==
    ~(~row.STUSAB.isna /\ row.STUSAB.s \in {exclude[k] : k \in DOMAIN exclude})

\* gdf_filtered['STUSAB'] == 'AK'
IsAlaska(row) == ~row.STUSAB.isna /\ row.STUSAB.s = "AK"

\* a test that also drops the rows without a state
NotAlaskaAndPresent(row) == ~row.STUSAB.isna /\ row.STUSAB.s # "AK"

\* gdf_filtered['STUSAB'] != 'AK': true of a missing STUSAB
NotAlaska(row) == ~(~row.STUSAB.isna /\ row.STUSAB.s = "AK")

\* prepare_geodataframe(gdf_tracts, df_processed, exclude_states)
prepare_geodataframe(gdf_tracts, df_processed, exclude_states) ==
    LET exclude == ExcludeList(exclude_states)
        merged == MergeLeft(gdf_tracts, df_processed)
        gdf == [i \in DOMAIN merged |-> WithCategory(merged[i])]
        KeptRow(r) == Kept(r, exclude)
        gdf_filtered == SelectSeq(gdf, KeptRow)
    IN  [pc |-> "returned",
         full |-> gdf_filtered,
         conus |-> SelectSeq(gdf_filtered, NotAlaska),
         alaska |-> SelectSeq(gdf_filtered, IsAlaska)]

(* The inputs explored *)

TractIds == {"G0100010020100", "G0200130000100"}

StateCodes == {"AK", "HI", "PR", "NY"}

\* the eleven labels of the classifier, its sentinel, and a label it never gives
FuelTypeValues ==
    Fuels \cup {"Tie", "No_Data", "Error", "Kerosene"}

ProcessedTables ==
    UNION {[ids -> [STUSAB : StateCodes, Dom_Fuel_Type : FuelTypeValues]] :
              ids \in SUBSET TractIds}

TractTables == UNION {[1..n -> TractIds] : n \in 0..MaxTracts}

ExcludeArguments ==
    {[is_none |-> TRUE, list |-> <<>>]}
    \cup {[is_none |-> FALSE, list |-> l] : l \in {<<>>, <<"HI">>, <<"AK", "HI">>}}

InitGeo ==
    /\ geo_in \in [pc : {"ready"}, gdf_tracts : TractTables,
                   df_processed : ProcessedTables, exclude_states : ExcludeArguments]
    /\ geo = Idle
    /\ df = <<>> /\ year = 0 /\ pc = "idle"
    /\ result = NoResult /\ result2 = NoResult
    /\ viz_in = Idle /\ viz = Idle

\* the caller runs prepare_geodataframe
Prepare ==
    /\ geo_in.pc = "ready"
    /\ geo.pc = "idle"
    /\ geo' = prepare_geodataframe(geo_in.gdf_tracts, geo_in.df_processed,
                                   geo_in.exclude_states)
    /\ UNCHANGED <<df, year, pc, result, result2, geo_in, viz_in, viz>>

\* visualize_geospatial_data.FUEL_COLORS, the renderer's own copy of the dict
LegendColors ==
    [Natural_Gas |-> "#3182bd", Electricity |-> "#31a354", Fuel_Oil |-> "#de2d26",
     Propane |-> "#fd8d3c", Wood |-> "#8c6d31", Other |-> "#969696",
     No_Fuel_Missing |-> "#f0f0f0"]

Patch(facecolor, label) == [facecolor |-> facecolor, label |-> label]

\* a legend whose 'Other' patch takes the colour of the line above it
create_legend_elements_wood_twice ==
    <<Patch(LegendColors["Electricity"], "Electricity"),
      Patch(LegendColors["Natural_Gas"], "Natural Gas"),
      Patch(LegendColors["Propane"], "Propane"),
      Patch(LegendColors["Fuel_Oil"], "Fuel Oil"),
      Patch(LegendColors["Wood"], "Wood"),
      Patch(LegendColors["Wood"], "Other"),
      Patch(LegendColors["No_Fuel_Missing"], "No Fuel/Missing")>>

\* create_legend_elements()
create_legend_elements ==
    <<Patch(LegendColors["Electricity"], "Electricity"),
      Patch(LegendColors["Natural_Gas"], "Natural Gas"),
      Patch(LegendColors["Propane"], "Propane"),
      Patch(LegendColors["Fuel_Oil"], "Fuel Oil"),
      Patch(LegendColors["Wood"], "Wood"),
      Patch(LegendColors["Other"], "Other"),
      Patch(LegendColors["No_Fuel_Missing"], "No Fuel/Missing")>>

\* the caller, holding the prepared frames, builds the legend for them
Legend ==
    /\ geo.pc = "returned"
    /\ viz.pc = "idle"
    /\ viz' = [pc |-> "legend", handles |-> create_legend_elements]
    /\ UNCHANGED <<df, year, pc, result, result2, geo_in, geo, viz_in>>

NextGeo == Prepare \/ Legend

SpecGeo == InitGeo /\ [][NextGeo]_vars

----------------------------------------------------------------------------
(* The renderer: plot_heating_fuel_map, save_figure, create_heating_fuel_map
   and create_heating_fuel_grid.

   A GeoDataFrame is seen through its coordinate reference system (and, for
   the state boundaries, through whether it has a state column); None is
   NoFrame.  An axes is [panel, kind]; what is drawn is the set of
   [panel, kind, layer] put on the axes.  The file system is the set of the
   paths written. *)

MaxYears == 2

NoFrame == [none |-> TRUE, crs |-> "", state_col |-> FALSE]

Frame(crs, state_col) == [none |-> FALSE, crs |-> crs, state_col |-> state_col]

NoAxes == [panel |-> 0, kind |-> "none"]

Axes(panel, kind) == [panel |-> panel, kind |-> kind]

Artists(ax, layers) == {[panel |-> ax.panel, kind |-> ax.kind, layer |-> l] : l \in layers}

Raised(exc, msg, drawn) == [exc |-> exc, msg |-> msg, drawn |-> drawn]

\* plot_heating_fuel_map(...): the exception raised, if any, and what is on
\* the axes when it returns or raises
plot_heating_fuel_map(gdf_conus, gdf_alaska, gdf_states, ax_main, ax_alaska, drawn) ==
    IF gdf_conus.crs # gdf_states.crs
    THEN Raised("ValueError", "CRS mismatch", drawn)
    ELSE IF ~gdf_states.state_col
    THEN Raised("ValueError", "No state abbreviation column found", drawn)
    ELSE LET main == drawn \cup Artists(ax_main, {"tracts", "boundary", "title"})
         IN  IF ax_alaska = NoAxes THEN Raised("", "", main)
             ELSE IF gdf_alaska.none
             THEN Raised("AttributeError", "'NoneType' object has no attribute 'plot'", main)
             ELSE Raised("", "", main \cup Artists(ax_alaska, {"tracts", "boundary", "text"}))

\* os.path.join(output_dir, name), output_dir without a trailing separator
PathJoin(output_dir, name) == output_dir \o "/" \o name

\* save_figure(fig, output_dir, filename_base): the files written and the pair returned
save_figure(output_dir, filename_base) ==
    LET png_path == PathJoin(output_dir, filename_base \o ".png")
        pdf_path == PathJoin(output_dir, filename_base \o ".pdf")
    IN  [files |-> {png_path, pdf_path}, ret |-> <<png_path, pdf_path>>]

\* the outcome of a renderer call
Outcome(exc, msg, dir_created, figure, panels, drawn, files, ret) ==
    [pc |-> IF exc = "" THEN "returned" ELSE "raised",
     exc |-> exc, msg |-> msg, dir_created |-> dir_created, figure |-> figure,
     panels |-> panels, drawn |-> drawn, files |-> files, ret |-> ret]

\* create_heating_fuel_map(gdf_conus, gdf_alaska, gdf_states, year, output_dir)
create_heating_fuel_map(gdf_conus, gdf_alaska, gdf_states, y, output_dir) ==
    LET plotted == plot_heating_fuel_map(gdf_conus, gdf_alaska, gdf_states,
                                         Axes(1, "main"), Axes(1, "alaska"), {})
        saved == save_figure(output_dir, "heating_fuel_map_" \o ToString(y))
    IN  IF plotted.exc # ""
        THEN Outcome(plotted.exc, plotted.msg, TRUE, TRUE, <<y>>, plotted.drawn, {}, <<>>)
        ELSE Outcome("", "", TRUE, TRUE, <<y>>, plotted.drawn, saved.files, saved.ret)

\* sorted(keys)
RECURSIVE Sorted(_)
Sorted(S) ==
    IF S = {} THEN <<>>
    ELSE LET m == CHOOSE m \in S : \A x \in S : m <= x
         IN  <<m>> \o Sorted(S \ {m})

\* min(years) and max(years) of a non-empty list
RECURSIVE MinOf(_)
MinOf(years) ==
    IF Len(years) = 1 THEN years[1]
    ELSE LET rest == MinOf(Tail(years))
         IN  IF years[1] <= rest THEN years[1] ELSE rest

RECURSIVE MaxOf(_)
MaxOf(years) ==
    IF Len(years) = 1 THEN years[1]
    ELSE LET rest == MaxOf(Tail(years))
         IN  IF years[1] >= rest THEN years[1] ELSE rest

\* the name built from the first and the last year listed
GridFilenameFirstLast(years) ==
    "heating_fuel_grid_" \o ToString(years[1]) \o "_" \o ToString(years[Len(years)])

\* f"heating_fuel_grid_{min(years)}_{max(years)}"
GridFilename(years) ==
    "heating_fuel_grid_" \o ToString(MinOf(years)) \o "_" \o ToString(MaxOf(years))

\* the validation loop, from position i on: the message of the first
\* ValueError it raises, "" when it raises none
RECURSIVE ValidateFrom(_, _, _, _)
ValidateFrom(gdf_dict, years, include_alaska, i) ==
    IF i > Len(years) THEN ""
    ELSE IF years[i] \notin DOMAIN gdf_dict THEN "Year not found in gdf_dict"
    ELSE IF "conus" \notin DOMAIN gdf_dict[years[i]] THEN "Missing 'conus' data"
    ELSE IF include_alaska /\ "alaska" \notin DOMAIN gdf_dict[years[i]]
    THEN "Missing 'alaska' data"
    ELSE ValidateFrom(gdf_dict, years, include_alaska, i + 1)

\* the Alaska frames not asked for
ValidateWithoutAlaska(gdf_dict, years, include_alaska) ==
    ValidateFrom(gdf_dict, years, FALSE, 1)

\* lines 350-356
Validate(gdf_dict, years, include_alaska) ==
    ValidateFrom(gdf_dict, years, include_alaska, 1)

\* gdf_dict[year].get('alaska')
GetAlaska(entry) == IF "alaska" \in DOMAIN entry THEN entry["alaska"] ELSE NoFrame

\* the loop of lines 421-434, from panel i on
RECURSIVE PlotFrom(_, _, _, _, _, _)
PlotFrom(gdf_dict, gdf_states, years, include_alaska, i, drawn) ==
    IF i > Len(years) THEN Raised("", "", drawn)
    ELSE LET plotted ==
                 plot_heating_fuel_map(
                     gdf_dict[years[i]]["conus"], GetAlaska(gdf_dict[years[i]]),
                     gdf_states, Axes(i, "main"),
                     IF include_alaska THEN Axes(i, "alaska") ELSE NoAxes, drawn)
         IN  IF plotted.exc # "" THEN plotted
             ELSE PlotFrom(gdf_dict, gdf_states, years, include_alaska,
                           i + 1, plotted.drawn)

\* create_heating_fuel_grid(gdf_dict, gdf_states, output_dir, years, include_alaska)
create_heating_fuel_grid(gdf_dict, gdf_states, output_dir, years_arg, include_alaska) ==
    LET years == IF years_arg.is_none THEN Sorted(DOMAIN gdf_dict) ELSE years_arg.list
        invalid == Validate(gdf_dict, years, include_alaska)
    IN  IF invalid # ""
        THEN Outcome("ValueError", invalid, FALSE, FALSE, <<>>, {}, {}, <<>>)
        ELSE IF Len(years) = 0
        THEN \* plt.subplots(ncols=0): the figure exists, the grid is refused
             Outcome("ValueError", "Number of columns must be a positive integer",
                     TRUE, TRUE, <<>>, {}, {}, <<>>)
        ELSE LET plotted == PlotFrom(gdf_dict, gdf_states, years, include_alaska, 1, {})
                 saved == save_figure(output_dir, GridFilename(years))
             IN  IF plotted.exc # ""
                 THEN Outcome(plotted.exc, plotted.msg, TRUE, TRUE, years,
                              plotted.drawn, {}, <<>>)
                 ELSE Outcome("", "", TRUE, TRUE, years, plotted.drawn,
                              saved.files, saved.ret)

(* The inputs explored *)

CrsValues == {"EPSG:5070", "EPSG:3338"}

TractFrames == {Frame(c, FALSE) : c \in CrsValues}

StateFrames == {Frame(c, b) : c \in CrsValues, b \in BOOLEAN}

GridYears == {2015, 2020, 2023}

\* the inner dicts: any of the keys 'conus' and 'alaska'
GridEntries == UNION {[ks -> TractFrames] : ks \in SUBSET {"conus", "alaska"}}

GridDicts == UNION {[ys -> GridEntries] : ys \in SUBSET GridYears}

YearsArguments ==
    {[is_none |-> TRUE, list |-> <<>>]}
    \cup {[is_none |-> FALSE, list |-> l] :
             l \in UNION {[1..n -> GridYears] : n \in 0..MaxYears}}

OutputDir == "outputs/maps"

InitViz ==
    /\ \/ viz_in \in [pc : {"ready"}, fn : {"map"},
                      gdf_conus : TractFrames, gdf_alaska : TractFrames \cup {NoFrame},
                      gdf_states : StateFrames, year : GridYears,
                      output_dir : {OutputDir}]
       \/ viz_in \in [pc : {"ready"}, fn : {"grid"},
                      gdf_dict : GridDicts, gdf_states : StateFrames,
                      years : YearsArguments, include_alaska : BOOLEAN,
                      output_dir : {OutputDir}]
    /\ viz = Idle
    /\ df = <<>> /\ year = 0 /\ pc = "idle"
    /\ result = NoResult /\ result2 = NoResult
    /\ geo_in = Idle /\ geo = Idle

\* the caller runs create_heating_fuel_map
CreateMap ==
    /\ viz_in.pc = "ready" /\ viz.pc = "idle"
    /\ viz_in.fn = "map"
    /\ viz' = create_heating_fuel_map(viz_in.gdf_conus, viz_in.gdf_alaska,
                                      viz_in.gdf_states, viz_in.year, viz_in.output_dir)
    /\ UNCHANGED <<df, year, pc, result, result2, geo_in, geo, viz_in>>

\* the caller runs create_heating_fuel_grid
CreateGrid ==
    /\ viz_in.pc = "ready" /\ viz.pc = "idle"
    /\ viz_in.fn = "grid"
    /\ viz' = create_heating_fuel_grid(viz_in.gdf_dict, viz_in.gdf_states,
                                       viz_in.output_dir, viz_in.years,
                                       viz_in.include_alaska)
    /\ UNCHANGED <<df, year, pc, result, result2, geo_in, geo, viz_in>>

NextViz == CreateMap \/ CreateGrid

SpecViz == InitViz /\ [][NextViz]_vars

----------------------------------------------------------------------------
(* The returned row, and the vocabulary of the properties *)

Returned == pc = "returned"

out == result.table

Total == out["Total_Housing_Units"]

\* Total_Housing_Units is present and strictly positive
TotalPositive == notna(Total) /\ Total.v > 0

ValidData == out["Data_Quality_Check"] = "Valid_Data"

\* the fuels whose count is the largest count of the row
FuelsAtMaximum ==
    {f \in Fuels : /\ notna(out[f])
                   /\ \A g \in Fuels : notna(out[g]) => out[g].v <= out[f].v}

\* the sum of the counts of the row, nulls skipped
RECURSIVE SumOver(_)
SumOver(S) ==
    IF S = {} THEN 0
    ELSE LET f == CHOOSE f \in S : TRUE
         IN  (IF out[f].isna THEN 0 ELSE out[f].v) + SumOver(S \ {f})

PctUndefined == \A f \in Fuels : out[PctName(f)].isna

----------------------------------------------------------------------------
(* C1: Data_Quality_Check is 'Valid_Data' exactly when Total_Housing_Units
   is not null and strictly greater than 0, and 'Insufficient_Data' in
   every other case (null, zero, negative). *)
C1_QualityFlag ==
    Returned =>
        /\ ValidData <=> TotalPositive
        /\ ~TotalPositive => out["Data_Quality_Check"] = "Insufficient_Data"

\* a tract with exactly one housing unit is valid, one with none is not
C1_Witness ==
    /\ Returned
    /\ Total = Num(1)
    /\ ValidData

(* C2: a row whose total is null or <= 0 has Dom_Fuel_Type 'No_Data',
   Dom_Fuel_Count and Dom_Fuel_Pct NaN and all nine Pct_<fuel> NaN (not
   zero), whatever its fuel counts, tied at the maximum or not. *)
C2_InsufficientRow ==
    Returned /\ ~TotalPositive =>
        /\ out["Dom_Fuel_Type"] = "No_Data"
        /\ out["Dom_Fuel_Count"].isna
        /\ out["Dom_Fuel_Pct"].isna
        /\ PctUndefined

\* a null total with the tie flag set: the quality check still wins
C2_Witness ==
    /\ Returned
    /\ Total.isna
    /\ Cardinality(FuelsAtMaximum) > 1
    /\ out["Has_Dom_Tie"]
    /\ out["Dom_Fuel_Type"] = "No_Data"
    /\ PctUndefined

(* C3: a Valid_Data row with two or more fuel counts at the row maximum has
   Has_Dom_Tie true, Dom_Fuel_Type 'Tie' and Dom_Fuel_Count, Dom_Fuel_Pct
   NaN, also when the total is not the sum of the counts. *)
C3_TieRow ==
    Returned /\ ValidData /\ Cardinality(FuelsAtMaximum) >= 2 =>
        /\ out["Has_Dom_Tie"]
        /\ out["Dom_Fuel_Type"] = "Tie"
        /\ out["Dom_Fuel_Count"].isna
        /\ out["Dom_Fuel_Pct"].isna

\* Natural_Gas and Electricity tied, the others 0, the total above the sum
C3_Witness ==
    /\ Returned
    /\ ValidData
    /\ FuelsAtMaximum = {"Natural_Gas", "Electricity"}
    /\ out["Natural_Gas"] = Num(1)
    /\ Total = Num(3)
    /\ SumOver(Fuels) = 2
    /\ out["Dom_Fuel_Type"] = "Tie"

\* the fixed order of the scan, as the claim gives it
C4_Order ==
    <<"Natural_Gas", "Propane", "Electricity", "Fuel_Oil",
      "Coal", "Wood", "Solar", "Other", "No_Fuel">>

(* C4: a Valid_Data row with exactly one fuel count at the row maximum has
   Has_Dom_Tie false and Dom_Fuel_Type the name of that fuel, which is the
   first one, in the fixed order, whose count equals the maximum. *)
C4_SingleMaximum ==
    Returned /\ ValidData /\ Cardinality(FuelsAtMaximum) = 1 =>
        /\ ~out["Has_Dom_Tie"]
        /\ FuelsAtMaximum = {out["Dom_Fuel_Type"]}
        /\ \E i \in DOMAIN C4_Order :
              /\ C4_Order[i] = out["Dom_Fuel_Type"]
              /\ \A j \in 1..(i - 1) : C4_Order[j] \notin FuelsAtMaximum

\* the last fuel of the order wins when it alone holds the maximum
C4_Witness ==
    /\ Returned
    /\ ValidData
    /\ FuelsAtMaximum = {"No_Fuel"}
    /\ out["Dom_Fuel_Type"] = "No_Fuel"
    /\ ~out["Has_Dom_Tie"]

(* C5: Has_Dom_Tie = (more than one fuel count equals the row maximum) and
   (Total_Housing_Units != 0); a row with total 0 is never flagged, even
   with all nine counts tied at 0. *)
C5_TieFlag ==
    Returned =>
        out["Has_Dom_Tie"] =
            (Cardinality(FuelsAtMaximum) > 1 /\ ~CellEq(Total, Num(0)))

\* total 0 and all nine counts 0
C5_Witness ==
    /\ Returned
    /\ Total = Num(0)
    /\ \A f \in Fuels : out[f] = Num(0)
    /\ ~out["Has_Dom_Tie"]

(* C6: for every accepted input, Dom_Fuel_Type is one of the nine fuel
   names, 'Tie' or 'No_Data'; the sentinel 'Error' is never produced. *)
C6_NeverError ==
    Returned => out["Dom_Fuel_Type"] \in Fuels \cup {"Tie", "No_Data"}

C8_DominantMirrors ==
    Returned /\ out["Dom_Fuel_Type"] \in Fuels =>
        LET F == out["Dom_Fuel_Type"]
        IN  /\ F \in FuelsAtMaximum
            /\ CellEq(out["Dom_Fuel_Count"], out[F])
            /\ CellEq(out["Dom_Fuel_Pct"], out[PctName(F)])

\* Natural_Gas 2 of 3 housing units, the others 0: 66.7 percent
C8_Witness ==
    /\ Returned
    /\ out["Dom_Fuel_Type"] = "Natural_Gas"
    /\ out["Dom_Fuel_Count"] = Num(2)
    /\ Total = Num(3)
    /\ out["Dom_Fuel_Pct"] = Num(667)
    /\ out["Pct_Natural_Gas"] = Num(667)

(* C9: in a Valid_Data row, Pct_<fuel> is 100 * count / total rounded to
   one decimal place: it is the number of tenths nearest to
   1000 * count / Total_Housing_Units, the denominator being the total and
   not the sum of the nine counts. *)
C9_PctOfTotal ==
    Returned /\ ValidData =>
        \A f \in Fuels :
            IF out[f].isna THEN out[PctName(f)].isna
            ELSE LET p == out[PctName(f)]
                     d == 1000 * out[f].v - p.v * Total.v
                 IN  /\ notna(p)
                     /\ 2 * d <= Total.v
                     /\ 2 * d >= - Total.v

\* one unit of three, the counts summing to 1: 33.3 percent, not 100
C9_Witness ==
    /\ Returned
    /\ ValidData
    /\ Total = Num(3)
    /\ out["Wood"] = Num(1)
    /\ SumOver(Fuels) = 1
    /\ out["Pct_Wood"] = Num(333)

(* C10: a call with a year other than 2015, 2020 or 2023 fails with an
   error that names the year, raised by the year check and not by the
   column selection; no schema is substituted and no table is returned. *)
C10_UnsupportedYear ==
    pc # "ready" /\ year \notin {2015, 2020, 2023} =>
        /\ pc = "raised"
        /\ result.kind = "raise"
        /\ result.exc = "KeyError"
        /\ result.msg[1] = "Year must be 2015, 2020, or 2023. Got: "
        /\ result.msg[2] = year
        /\ "table" \notin DOMAIN result

C10_Witness ==
    /\ pc = "raised"
    /\ year = 2010
    /\ result.msg = <<"Year must be 2015, 2020, or 2023. Got: ", 2010>>

----------------------------------------------------------------------------
(* The schema of each survey year, as the claims give it *)

SupportedYears == {2015, 2020, 2023}

ClaimedPrefix(y) == IF y = 2015 THEN "ADQYE" ELSE IF y = 2020 THEN "AMVDE" ELSE "ASUPE"

ClaimedGeoColumn(y) == IF y = 2023 THEN "GEO_ID" ELSE "GEOID"

ClaimedSuffixes == <<"001", "002", "003", "004", "005", "006", "007", "008", "009", "010">>

\* the 20 raw columns a year requires
ClaimedRequired(y) ==
    {"GISJOIN", "YEAR", "STUSAB", "STATE", "STATEA", "COUNTY", "COUNTYA", "TRACTA"}
    \cup {ClaimedGeoColumn(y), "NAME_E"}
    \cup {ClaimedPrefix(y) \o ClaimedSuffixes[k] : k \in DOMAIN ClaimedSuffixes}

\* the 15 derived columns
ClaimedDerived ==
    {"FIPS_Code", "Data_Quality_Check", "Has_Dom_Tie", "Dom_Fuel_Type",
     "Dom_Fuel_Count", "Dom_Fuel_Pct",
     "Pct_Natural_Gas", "Pct_Propane", "Pct_Electricity", "Pct_Fuel_Oil",
     "Pct_Coal", "Pct_Wood", "Pct_Solar", "Pct_Other", "Pct_No_Fuel"}

\* the 20 canonical names of the projected columns
ClaimedCanonical ==
    {"GISJOIN", "YEAR", "STUSAB", "STATE", "STATEA", "COUNTY", "COUNTYA", "TRACTA",
     "GEOID", "County_Name", "Total_Housing_Units"}
    \cup {C4_Order[k] : k \in DOMAIN C4_Order}

(* C11: for a supported year, a table lacking any one of the 20 required
   raw columns of that year's schema makes the call fail; no table, partly
   classified or not, is returned. *)
C11_MissingColumnFails ==
    /\ \A y \in SupportedYears : Cardinality(ClaimedRequired(y)) = 20
    /\ pc = "returned" \/ pc = "raised" =>
          (year \in SupportedYears /\ ~(ClaimedRequired(year) \subseteq DOMAIN df) =>
              /\ pc = "raised"
              /\ result.kind = "raise"
              /\ "table" \notin DOMAIN result)

\* the 2023 extract without GEO_ID: the GEOID column does not stand in for it
C11_Witness ==
    /\ pc = "raised"
    /\ year = 2023
    /\ "GEOID" \in DOMAIN df
    /\ result.exc = "KeyError"
    /\ result.msg = <<"not in index", {"GEO_ID"}>>

(* C12: for each supported year the output has exactly 35 columns: the 20
   projected ones under their canonical names (the identifier read from
   GEO_ID for 2023, from GEOID for 2015 and 2020; the ten counts found by the
   year's prefix and mapped in order to the total and the nine fuels) and the
   15 derived ones; other input columns and the two temporary columns are
   not in it. *)
C12_OutputColumns ==
    Returned =>
        /\ DOMAIN out = ClaimedCanonical \cup ClaimedDerived
        /\ Cardinality(DOMAIN out) = 35
        /\ \A c \in {"GISJOIN", "YEAR", "STUSAB", "STATE", "STATEA", "COUNTY",
                     "COUNTYA", "TRACTA"} : out[c] = df[c]
        /\ out["GEOID"] = df[ClaimedGeoColumn(year)]
        /\ out["County_Name"] = df["NAME_E"]
        /\ out["Total_Housing_Units"] = df[ClaimedPrefix(year) \o "001"]
        /\ \A k \in DOMAIN C4_Order :
              out[C4_Order[k]] = df[ClaimedPrefix(year) \o ClaimedSuffixes[k + 1]]
        /\ {"_max_fuel_value", "_tie_count", "REGIONA", "NAME_E"} \cap DOMAIN out = {}

\* a 2023 call on a table that also has a GEOID column and an unused column
C12_Witness ==
    /\ Returned
    /\ year = 2023
    /\ {"GEOID", "GEO_ID", "REGIONA", "ADQYE001"} \subseteq DOMAIN df
    /\ out["GEOID"] = df["GEO_ID"]
    /\ out["GEOID"] # df["GEOID"]
    /\ out["Natural_Gas"] = df["ASUPE002"]
    /\ Cardinality(DOMAIN out) = 35

(* C13: when the identifier string of the year's identifier column has at
   least 11 characters, FIPS_Code is exactly its last 11 characters. *)
C13_FipsCode ==
    Returned =>
        LET g == df[ClaimedGeoColumn(year)]
        IN  Len(g) >= 11 =>
                /\ Len(out["FIPS_Code"]) = 11
                /\ \A k \in 1..11 : out["FIPS_Code"][k] = g[Len(g) - 11 + k]

\* '14000US36061000100' gives '36061000100'
C13_Witness ==
    /\ Returned
    /\ year = 2015
    /\ df["GEOID"] =
          <<"1","4","0","0","0","U","S","3","6","0","6","1","0","0","0","1","0","0">>
    /\ out["FIPS_Code"] = <<"3","6","0","6","1","0","0","0","1","0","0">>

(* C14: a call, successful or failed, leaves the caller's table as it was:
   same columns, same names, same cells; the derived and temporary columns
   exist in the returned table only. *)
C14_InputUntouched == [][df' = df]_vars

\* after a successful call the caller's table still has its raw columns only
C14_Witness ==
    /\ Returned
    /\ "Dom_Fuel_Type" \in DOMAIN out
    /\ ClaimedDerived \cap DOMAIN df = {}
    /\ "ADQYE001" \in DOMAIN df

----------------------------------------------------------------------------
(* The frames prepare_geodataframe returned *)

Prepared == geo.pc = "returned"

RowsOf(frame) == {frame[i] : i \in DOMAIN frame}

(* C16: simplify_fuel_categories is total: Natural_Gas, Electricity,
   Propane, Fuel_Oil and Wood map to themselves; Tie, Coal, Solar and Other
   to 'Other'; No_Fuel and No_Data to 'No_Fuel_Missing'; anything else, the
   sentinel 'Error' included, to 'No_Fuel_Missing'. *)
C16_Simplify ==
    Prepared =>
        \A r \in RowsOf(geo.full) :
            LET t == r.Dom_Fuel_Type
                named == ~t.isna
            IN  /\ named /\ t.s \in {"Natural_Gas", "Electricity", "Propane",
                                     "Fuel_Oil", "Wood"}
                      => r.Dom_Fuel_Simple = t.s
                /\ named /\ t.s \in {"Tie", "Coal", "Solar", "Other"}
                      => r.Dom_Fuel_Simple = "Other"
                /\ named /\ t.s \in {"No_Fuel", "No_Data"}
                      => r.Dom_Fuel_Simple = "No_Fuel_Missing"
                /\ ~(named /\ t.s \in {"Natural_Gas", "Electricity", "Propane",
                                       "Fuel_Oil", "Wood", "Tie", "Coal", "Solar",
                                       "Other", "No_Fuel", "No_Data"})
                      => r.Dom_Fuel_Simple = "No_Fuel_Missing"

\* the sentinel and a rare fuel, side by side
C16_Witness ==
    /\ Prepared
    /\ \E r \in RowsOf(geo.full) :
          r.Dom_Fuel_Type = Str("Error") /\ r.Dom_Fuel_Simple = "No_Fuel_Missing"
    /\ \E r \in RowsOf(geo.full) :
          r.Dom_Fuel_Type = Str("Coal") /\ r.Dom_Fuel_Simple = "Other"

\* the states excluded: the argument, or HI and PR when it is None
C19_Excluded ==
    IF geo_in.exclude_states.is_none THEN {"HI", "PR"}
    ELSE {geo_in.exclude_states.list[k] : k \in DOMAIN geo_in.exclude_states.list}

(* C19: no row of gdf_full has STUSAB in exclude_states (HI and PR by
   default); gdf_alaska is exactly the rows of gdf_full with STUSAB 'AK' and
   gdf_conus exactly the others, so the two are disjoint and cover gdf_full,
   rows without STUSAB included. *)
C19_Partition ==
    Prepared =>
        /\ \A r \in RowsOf(geo.full) : r.STUSAB.isna \/ r.STUSAB.s \notin C19_Excluded
        /\ RowsOf(geo.alaska) =
              {r \in RowsOf(geo.full) : ~r.STUSAB.isna /\ r.STUSAB.s = "AK"}
        /\ RowsOf(geo.conus) = RowsOf(geo.full) \ RowsOf(geo.alaska)
        /\ RowsOf(geo.conus) \cap RowsOf(geo.alaska) = {}
        /\ RowsOf(geo.conus) \cup RowsOf(geo.alaska) = RowsOf(geo.full)
        /\ Len(geo.conus) + Len(geo.alaska) = Len(geo.full)

\* an Alaska tract and a tract the join found no record for, default exclusion
C19_Witness ==
    /\ Prepared
    /\ geo_in.exclude_states.is_none
    /\ Len(geo.alaska) = 1
    /\ Len(geo.conus) = 1
    /\ geo.conus[1].STUSAB.isna
    /\ Len(geo.full) = 2

\* the seven keys of FUEL_COLORS
C21_Categories ==
    {"Natural_Gas", "Electricity", "Fuel_Oil", "Propane", "Wood", "Other",
     "No_Fuel_Missing"}

C21_Rows == RowsOf(geo.full) \cup RowsOf(geo.conus) \cup RowsOf(geo.alaska)

\* the legend patches of one colour
C21_PatchesOf(color) ==
    {i \in DOMAIN viz.handles : viz.handles[i].facecolor = color}

(* C21: every row prepare_geodataframe returns has Dom_Fuel_Simple among the
   seven keys of FUEL_COLORS and a colour that is that key's, whatever
   Dom_Fuel_Type was; a tract the left join found no record for is
   No_Fuel_Missing; and the legend has exactly one entry for each of the
   seven categories, so each row's colour is the colour of exactly one
   entry. *)
C21_ColorDefined ==
    /\ Prepared =>
          \A r \in C21_Rows :
              /\ r.Dom_Fuel_Simple \in C21_Categories
              /\ C21_Categories = DOMAIN FUEL_COLORS
              /\ ~r.color.isna
              /\ r.color.s = FUEL_COLORS[r.Dom_Fuel_Simple]
              /\ r.GISJOIN \notin DOMAIN geo_in.df_processed
                    => r.Dom_Fuel_Simple = "No_Fuel_Missing"
    /\ viz.pc = "legend" =>
          /\ Len(viz.handles) = 7
          /\ \A k \in C21_Categories :
                 Cardinality(C21_PatchesOf(FUEL_COLORS[k])) = 1
          /\ \A r \in C21_Rows :
                 Cardinality(C21_PatchesOf(r.color.s)) = 1

\* a tract without a record and a tract with a label the classifier never
\* gives, both coloured, under the legend
C21_Witness ==
    /\ Prepared
    /\ viz.pc = "legend"
    /\ \E r \in RowsOf(geo.full) :
          /\ r.GISJOIN \notin DOMAIN geo_in.df_processed
          /\ r.Dom_Fuel_Simple = "No_Fuel_Missing"
          /\ r.color = Str("#f0f0f0")
    /\ \E r \in RowsOf(geo.full) :
          /\ r.Dom_Fuel_Type = Str("Kerosene")
          /\ r.color = Str("#f0f0f0")
    /\ viz.handles[7] = Patch("#f0f0f0", "No Fuel/Missing")

----------------------------------------------------------------------------
(* The renderer's properties *)

Rendered == viz.pc # "idle"

\* the years the grid lays out: the ones listed, or every key
RequestedYears ==
    IF viz_in.years.is_none THEN DOMAIN viz_in.gdf_dict
    ELSE {viz_in.years.list[i] : i \in 1..Len(viz_in.years.list)}

YearInvalid(y) ==
    \/ y \notin DOMAIN viz_in.gdf_dict
    \/ "conus" \notin DOMAIN viz_in.gdf_dict[y]
    \/ viz_in.include_alaska /\ "alaska" \notin DOMAIN viz_in.gdf_dict[y]

\* the frames of one map disagree on the reference system
MapCrsMismatch ==
    \/ viz_in.gdf_conus.crs # viz_in.gdf_states.crs
    \/ ~viz_in.gdf_alaska.none /\ viz_in.gdf_alaska.crs # viz_in.gdf_conus.crs

\* the frames a valid grid draws disagree on the reference system
GridCrsMismatch ==
    \E y \in RequestedYears :
        \/ viz_in.gdf_dict[y]["conus"].crs # viz_in.gdf_states.crs
        \/ viz_in.include_alaska
           /\ viz_in.gdf_dict[y]["alaska"].crs # viz_in.gdf_dict[y]["conus"].crs

CrsFailure ==
    /\ viz.pc = "raised"
    /\ viz.exc = "ValueError"
    /\ viz.msg = "CRS mismatch"
    /\ viz.files = {}

\* C17: when the CONUS, Alaska and state frames of a map do not all use one
\* reference system, the call fails with the CRS error before anything is
\* drawn, and neither the single map nor the grid writes a PNG or a PDF
\* (the inputs being otherwise usable: the state frame has its state column,
\* the grid's years are valid).
C17_CrsMismatchFails ==
    /\ (Rendered /\ viz_in.fn = "map" /\ viz_in.gdf_states.state_col
        /\ MapCrsMismatch)
          => CrsFailure /\ viz.drawn = {}
    /\ (Rendered /\ viz_in.fn = "grid" /\ viz_in.gdf_states.state_col
        /\ RequestedYears # {}
        /\ (\A y \in RequestedYears : ~YearInvalid(y)) /\ GridCrsMismatch)
          => CrsFailure

NameOfMap == "outputs/maps/heating_fuel_map_" \o ToString(viz_in.year)

NameOfGrid ==
    LET lo == CHOOSE m \in RequestedYears : \A y \in RequestedYears : m <= y
        hi == CHOOSE m \in RequestedYears : \A y \in RequestedYears : m >= y
    IN  "outputs/maps/heating_fuel_grid_" \o ToString(lo) \o "_" \o ToString(hi)

\* C18: a renderer call that returns has written exactly two files in the
\* output directory, a PNG and a PDF, named heating_fuel_map_<year> for the
\* single map and heating_fuel_grid_<least year>_<greatest year> for the
\* grid in whatever order the years were listed; it returns the two paths,
\* the PNG first.
C18_TwoArtifacts ==
    viz.pc = "returned" =>
        LET base == IF viz_in.fn = "map" THEN NameOfMap ELSE NameOfGrid
        IN  /\ viz.files = {base \o ".png", base \o ".pdf"}
            /\ Cardinality(viz.files) = 2
            /\ viz.ret = <<base \o ".png", base \o ".pdf">>

\* a grid of 2020 then 2015 was written
C18_Witness ==
    /\ viz.pc = "returned"
    /\ viz_in.fn = "grid"
    /\ ~viz_in.years.is_none
    /\ viz_in.years.list = <<2020, 2015>>
    /\ viz.ret = <<"outputs/maps/heating_fuel_grid_2015_2020.png",
                   "outputs/maps/heating_fuel_grid_2015_2020.pdf">>

\* C20: the grid checks every requested year first: when one is not a key
\* of gdf_dict, or its entry has no 'conus', or has no 'alaska' while
\* include_alaska is set, the call raises ValueError and no directory, no
\* figure and no file has been made; with years None the panels are all the
\* keys in ascending order.
C20_ValidatedFirst ==
    (Rendered /\ viz_in.fn = "grid") =>
        /\ (\E y \in RequestedYears : YearInvalid(y)) =>
               /\ viz.pc = "raised"
               /\ viz.exc = "ValueError"
               /\ ~viz.dir_created
               /\ ~viz.figure
               /\ viz.drawn = {}
               /\ viz.files = {}
        /\ (viz_in.years.is_none /\ viz.panels # <<>>) =>
               /\ {viz.panels[i] : i \in 1..Len(viz.panels)} = DOMAIN viz_in.gdf_dict
               /\ \A i, j \in 1..Len(viz.panels) : i < j => viz.panels[i] < viz.panels[j]

\* the second year listed lacks its Alaska frame, the first is complete
C20_Witness ==
    /\ Rendered
    /\ viz_in.fn = "grid"
    /\ ~viz_in.years.is_none
    /\ Len(viz_in.years.list) = 2
    /\ ~YearInvalid(viz_in.years.list[1])
    /\ viz_in.include_alaska
    /\ viz_in.years.list[2] \in DOMAIN viz_in.gdf_dict
    /\ DOMAIN viz_in.gdf_dict[viz_in.years.list[2]] = {"conus"}
    /\ viz.msg = "Missing 'alaska' data"
    /\ ~viz.dir_created

====
